---- MODULE Spec2Model ----
(***************************************************************************)
(* Model of the authentication routes (routes/auth.js) and the Auth Gate   *)
(* (middlewares/auth.js) of src/au.js, and of the profile routes of         *)
(* src/imageuploader/backend.js.  Spec runs the auth routes, SpecDel the    *)
(* auth routes over a store whose accounts can be removed, SpecProfile the  *)
(* profile routes.                                                          *)
(*                                                                         *)
(* Every request is an independently scheduled task.  A handler runs       *)
(* synchronously up to each `await`; every await on the Account store is a *)
(* separate atomic step, so the steps of concurrent requests interleave.   *)
(*                                                                         *)
(* Strings that the code inspects are sequences: an authorization header   *)
(* is a sequence of atoms (the scheme prefix "Bearer " or a credential), an *)
(* email is a sequence of parts, a name a sequence of characters.          *)
(* The clock counts days (the default token lifetime "1d" is 1).           *)
(***************************************************************************)
EXTENDS Integers, Sequences, FiniteSets, TLC

\* ---- bounds ------------------------------------------------------------
MaxReqs == 3
MaxClock == 1

\* ---- program constants ---------------------------------------------------
\* process.env.JWT_EXPIRES || "1d", in days
ExpiresIn == 1
\* body("password").isLength({ min: 6 })
MinPasswordLen == 6
\* process.env.JWT_SECRET
JWT_SECRET == "secret"

VARIABLES users, nextId, reqs, clock

\* the Profile store and the requests of the profile routes
\* (imageuploader/backend.js)
VARIABLES profiles, pNextId, preqs

pvars == <<profiles, pNextId, preqs>>

vars == <<users, nextId, reqs, clock, pvars>>

\* ---- header and token strings -------------------------------------------
\* One atom of a header string.  kind "scheme" is the 7 characters "Bearer ",
\* kind "jwt" a well-formed JSON Web Token, kind "junk" any other text.
Atom(kind, id, email, iat, exp, key) ==
    [kind |-> kind, id |-> id, email |-> email, iat |-> iat, exp |-> exp, key |-> key]

Bearer == Atom("scheme", 0, <<>>, 0, 0, "")

Junk == Atom("junk", 0, <<>>, 0, 0, "")

\* req.headers.authorization: absent (undefined) or a string
NoHeader == [present |-> FALSE, value |-> <<>>]

Hdr(value) == [present |-> TRUE, value |-> value]

\* req.headers.authorization || ""
orEmpty(authorization) ==
    IF authorization.present /\ authorization.value # <<>> THEN authorization.value ELSE <<>>

\* header.startsWith("Bearer ")
startsWithBearer(header) == Len(header) > 0 /\ Head(header) = Bearer

\* header.slice(7)
slice7(header) == Tail(header)

\* ---- Credential Issuer ----------------------------------------------------
signTokenNoEmail(payload, now) ==
    <<Atom("jwt", payload.id, <<>>, now, now + ExpiresIn, JWT_SECRET)>>

signTokenNoExpiry(payload, now) ==
    <<Atom("jwt", payload.id, payload.email, now, now + ExpiresIn + MaxClock + 1, JWT_SECRET)>>

\* jwt.sign(payload, JWT_SECRET, {expiresIn}) at time now
signToken(payload, now) ==
    <<Atom("jwt", payload.id, payload.email, now, now + ExpiresIn, JWT_SECRET)>>

\* jwt.verify(token, JWT_SECRET) at time now: throws (ok = FALSE) on a
\* malformed token, a signature made with another key, or now >= exp.
jwtVerify(token, now) ==
    LET wellFormed == Len(token) = 1 /\ token[1].kind = "jwt"
        good == wellFormed /\ token[1].key = JWT_SECRET /\ now < token[1].exp
    IN  [ok |-> good,
         decoded |-> IF good
                     THEN [id |-> token[1].id, email |-> token[1].email,
                           iat |-> token[1].iat, exp |-> token[1].exp]
                     ELSE [id |-> 0, email |-> <<>>, iat |-> 0, exp |-> 0]]

\* ---- responses -------------------------------------------------------------
Resp(status, body) == [status |-> status, body |-> body]

ErrBody(msg) == [isError |-> TRUE, Message |-> msg]

\* ---- Auth Gate (middlewares/auth.js) ---------------------------------------
extractTokenNoStrip(header) == header

extractTokenKeepBare(header) ==
    IF startsWithBearer(header) /\ Len(header) > 1 THEN slice7(header) ELSE header

\* header.startsWith("Bearer ") ? header.slice(7) : header
extractToken(header) ==
    IF startsWithBearer(header) THEN slice7(header) ELSE header

authNextOnFailure(authorization, now) ==
    LET header == orEmpty(authorization)
        token == extractToken(header)
        v == jwtVerify(token, now)
    IN  IF token = <<>>
        THEN [resps |-> <<Resp(401, ErrBody("No token provided"))>>,
              user |-> <<>>, next |-> FALSE, verifyCalls |-> 0]
        ELSE IF v.ok
        THEN [resps |-> <<>>, user |-> <<v.decoded>>, next |-> TRUE, verifyCalls |-> 1]
        ELSE [resps |-> <<>>, user |-> <<v.decoded>>, next |-> TRUE, verifyCalls |-> 1]

authWrongMessage(authorization, now) ==
    LET header == orEmpty(authorization)
        token == extractToken(header)
        v == jwtVerify(token, now)
    IN  IF token = <<>>
        THEN [resps |-> <<Resp(401, ErrBody("No token provided"))>>,
              user |-> <<>>, next |-> FALSE, verifyCalls |-> 0]
        ELSE IF v.ok
        THEN [resps |-> <<>>, user |-> <<v.decoded>>, next |-> TRUE, verifyCalls |-> 1]
        ELSE [resps |-> <<Resp(401, ErrBody("No token provided"))>>,
              user |-> <<>>, next |-> FALSE, verifyCalls |-> 1]

authRespondAndNext(authorization, now) ==
    LET header == orEmpty(authorization)
        token == extractToken(header)
        v == jwtVerify(token, now)
    IN  IF token = <<>>
        THEN [resps |-> <<Resp(401, ErrBody("No token provided"))>>,
              user |-> <<>>, next |-> FALSE, verifyCalls |-> 0]
        ELSE IF v.ok
        THEN [resps |-> <<>>, user |-> <<v.decoded>>, next |-> TRUE, verifyCalls |-> 1]
        ELSE [resps |-> <<Resp(401, ErrBody("Invalid/Expired token"))>>,
              user |-> <<v.decoded>>, next |-> TRUE, verifyCalls |-> 1]

\* auth(req, res, next) at time now: the responses it sends, the identity it
\* attaches to req.user, whether it calls next(), and how often it calls
\* jwt.verify.
auth(authorization, now) ==
    LET header == orEmpty(authorization)
        token == extractToken(header)
        v == jwtVerify(token, now)
    IN  IF token = <<>>
        THEN [resps |-> <<Resp(401, ErrBody("No token provided"))>>,
              user |-> <<>>, next |-> FALSE, verifyCalls |-> 0]
        ELSE IF v.ok
        THEN [resps |-> <<>>, user |-> <<v.decoded>>, next |-> TRUE, verifyCalls |-> 1]
        ELSE [resps |-> <<Resp(401, ErrBody("Invalid/Expired token"))>>,
              user |-> <<>>, next |-> FALSE, verifyCalls |-> 1]

\* ---- Account store (models/User.js) ------------------------------------------
\* one-way hash applied when an account is saved
HashPassword(password) == <<"hash", password>>

\* user.matchPassword(password)
matchPassword(doc, password) == doc.password = HashPassword(password)

\* User.findOne({ email }): a sequence holding the account, or <<>> (null)
FindOne(store, email) ==
    IF \E d \in store : d.email = email
    THEN <<CHOOSE d \in store : d.email = email>>
    ELSE <<>>

\* User.findById(id)
FindById(store, id) ==
    IF \E d \in store : d._id = id
    THEN <<CHOOSE d \in store : d._id = id>>
    ELSE <<>>

UserCreateNoUnique(store, id, name, email, password) ==
    [ok |-> TRUE,
     doc |-> [_id |-> id, name |-> name, email |-> email,
              password |-> HashPassword(password)]]

\* User.create({name, email, password}): the unique index on email rejects
\* the write (ok = FALSE, the call throws) when the email is already stored.
UserCreate(store, id, name, email, password) ==
    [ok |-> ~ \E d \in store : d.email = email,
     doc |-> [_id |-> id, name |-> name, email |-> email,
              password |-> HashPassword(password)]]

\* ---- validation (express-validator chains) -----------------------------------
RECURSIVE trimLeft(_)
trimLeft(s) == IF s # <<>> /\ Head(s) = " " THEN trimLeft(Tail(s)) ELSE s

RECURSIVE trimRight(_)
trimRight(s) ==
    IF s # <<>> /\ s[Len(s)] = " " THEN trimRight(SubSeq(s, 1, Len(s) - 1)) ELSE s

\* body("name").trim()
trim(s) == trimRight(trimLeft(s))

\* isEmail(): local part, "@", domain
isEmail(email) ==
    Len(email) = 3 /\ email[1] # "" /\ email[2] = "@" /\ email[3] # ""

ValidationError(path, msg, value) == [path |-> path, msg |-> msg, value |-> value]

\* the chains of POST /signup; errors.array() keeps the offending value
signupErrors(body) ==
    (IF trim(body.name) = <<>>
     THEN <<ValidationError("name", "Name is required", <<"name", trim(body.name)>>)>>
     ELSE <<>>)
    \o (IF ~ isEmail(body.email)
        THEN <<ValidationError("email", "Valid email required", <<"email", body.email>>)>>
        ELSE <<>>)
    \o (IF Len(body.password) < MinPasswordLen
        THEN <<ValidationError("password", "Min 6 chars password", <<"raw", body.password>>)>>
        ELSE <<>>)

\* the chains of POST /login
loginErrors(body) ==
    (IF ~ isEmail(body.email)
     THEN <<ValidationError("email", "Valid email required", <<"email", body.email>>)>>
     ELSE <<>>)
    \o (IF Len(body.password) = 0
        THEN <<ValidationError("password", "Password required", <<"raw", body.password>>)>>
        ELSE <<>>)

\* ---- route handlers (routes/auth.js) ---------------------------------------------
userSafeKeepAll(doc) == doc

\* const { password: _, ...userSafe } = user.toObject()
userSafe(doc) == [f \in (DOMAIN doc) \ {"password"} |-> doc[f]]

\* .select("-password")
selectMinusPassword(doc) == [f \in (DOMAIN doc) \ {"password"} |-> doc[f]]

signupAfterFindNoCheck(found) == [resps |-> <<>>, pc |-> "create"]

\* POST /signup after `await User.findOne({ email })`
signupAfterFind(found) ==
    IF found # <<>>
    THEN [resps |-> <<Resp(409, ErrBody("Email already in use"))>>, pc |-> "done"]
    ELSE [resps |-> <<>>, pc |-> "create"]

\* POST /signup after `await User.create(...)`; created.ok = FALSE is the
\* rejected write, caught by the handler's catch block
signupAfterCreate(created, now) ==
    IF created.ok
    THEN <<Resp(201, [isError |-> FALSE, Message |-> "User created",
                      token |-> signToken([id |-> created.doc._id,
                                           email |-> created.doc.email], now),
                      user |-> userSafe(created.doc)])>>
    ELSE <<Resp(500, ErrBody("Internal server error"))>>

loginAfterFindOracle(found, password, now) ==
    IF found = <<>>
    THEN <<Resp(401, ErrBody("Invalid credentials"))>>
    ELSE IF ~ matchPassword(found[1], password)
    THEN <<Resp(401, ErrBody("Wrong password"))>>
    ELSE <<Resp(200, [isError |-> FALSE, Message |-> "Login success",
                      token |-> signToken([id |-> found[1]._id,
                                           email |-> found[1].email], now),
                      user |-> userSafe(found[1])])>>

\* POST /login after `await User.findOne({ email })`
loginAfterFind(found, password, now) ==
    IF found = <<>>
    THEN <<Resp(401, ErrBody("Invalid credentials"))>>
    ELSE IF ~ matchPassword(found[1], password)
    THEN <<Resp(401, ErrBody("Invalid credentials"))>>
    ELSE <<Resp(200, [isError |-> FALSE, Message |-> "Login success",
                      token |-> signToken([id |-> found[1]._id,
                                           email |-> found[1].email], now),
                      user |-> userSafe(found[1])])>>

meAfterFindAlways200(found) ==
    IF found = <<>>
    THEN <<Resp(200, [isError |-> FALSE, user |-> [_id |-> 0]])>>
    ELSE <<Resp(200, [isError |-> FALSE, user |-> selectMinusPassword(found[1])])>>

\* GET /me after `await User.findById(req.user.id).select("-password")`
meAfterFind(found) ==
    IF found = <<>>
    THEN <<Resp(404, ErrBody("User not found"))>>
    ELSE <<Resp(200, [isError |-> FALSE, user |-> selectMinusPassword(found[1])])>>

\* ---- requests ----------------------------------------------------------------------
\* One request in flight or finished.  pc is the handler's position; resps
\* the responses sent so far; user is req.user (<<>> while undefined).
\* Bookkeeping of what the request did: verifyCalls (calls of jwt.verify),
\* handlerRuns (starts of the route handler), reads and writes (Account
\* store accesses), looked/found (result of its lookup), gateAt (the time
\* the Auth Gate ran).
NewReq(kind, name, email, password, header) ==
    [kind |-> kind, pc |-> "start", name |-> name, email |-> email,
     password |-> password, header |-> header, resps |-> <<>>, user |-> <<>>,
     verifyCalls |-> 0, handlerRuns |-> 0, reads |-> 0, writes |-> 0,
     looked |-> FALSE, found |-> <<>>, gateAt |-> 0]

\* ---- inputs --------------------------------------------------------------------------
Ann == <<"ann", "@", "x.io">>

NotAnEmail == <<"ann">>

SignupBodies ==
    { [name |-> <<"A", " ">>, email |-> Ann, password |-> "secret1"],
      [name |-> <<"B">>, email |-> Ann, password |-> "hunter22"],
      [name |-> <<" ">>, email |-> NotAnEmail, password |-> "abc"] }

LoginBodies ==
    { [email |-> Ann, password |-> "secret1"],
      [email |-> Ann, password |-> "abc"],
      [email |-> NotAnEmail, password |-> ""] }

\* tokens handed out in responses so far
IssuedTokens ==
    { reqs[i].resps[k].body.token :
        i \in { j \in 1..Len(reqs) :
                  /\ reqs[j].resps # <<>>
                  /\ reqs[j].kind \in {"signup", "login"}
                  /\ reqs[j].resps[1].status \in {200, 201} },
        k \in {1} }

\* a token for account 1 signed with a key that is not JWT_SECRET
ForgedToken == <<Atom("jwt", 1, Ann, 0, MaxClock + 1, "other")>>

PresentableTokens == IssuedTokens \cup {ForgedToken, <<Junk>>}

Headers ==
    {NoHeader, Hdr(<<>>), Hdr(<<Bearer>>)}
      \cup { Hdr(t) : t \in PresentableTokens }
      \cup { Hdr(<<Bearer>> \o t) : t \in PresentableTokens }
      \cup { Hdr(<<Bearer, Bearer>> \o t) : t \in IssuedTokens }

\* ---- state machine ---------------------------------------------------------------------
Init ==
    /\ users = {}
    /\ nextId = 1
    /\ reqs = <<>>
    /\ clock = 0
    /\ profiles = {}
    /\ pNextId = 1
    /\ preqs = <<>>

\* POST /signup arrives: the validation chains run and the handler starts,
\* up to `await User.findOne`
SignupRequest(body) ==
    /\ Len(reqs) < MaxReqs
    /\ LET errors == signupErrors(body)
           r == NewReq("signup", trim(body.name), body.email, body.password, NoHeader)
       IN  reqs' = Append(reqs,
               IF errors # <<>>
               THEN [r EXCEPT !.pc = "done", !.handlerRuns = 1,
                              !.resps = <<Resp(400, [isError |-> TRUE, errors |-> errors])>>]
               ELSE [r EXCEPT !.pc = "find", !.handlerRuns = 1])
    /\ UNCHANGED <<users, nextId, clock, pvars>>

\* POST /signup: User.findOne resolves
SignupFind(i) ==
    /\ reqs[i].kind = "signup" /\ reqs[i].pc = "find"
    /\ LET found == FindOne(users, reqs[i].email)
           out == signupAfterFind(found)
       IN  reqs' = [reqs EXCEPT ![i].looked = TRUE, ![i].found = found,
                                ![i].reads = @ + 1,
                                ![i].resps = @ \o out.resps, ![i].pc = out.pc]
    /\ UNCHANGED <<users, nextId, clock, pvars>>

\* POST /signup: User.create resolves or rejects, then the response is sent
SignupCreate(i) ==
    /\ reqs[i].kind = "signup" /\ reqs[i].pc = "create"
    /\ LET created == UserCreate(users, nextId, reqs[i].name, reqs[i].email,
                                 reqs[i].password)
       IN  /\ users' = IF created.ok THEN users \cup {created.doc} ELSE users
           /\ nextId' = IF created.ok THEN nextId + 1 ELSE nextId
           /\ reqs' = [reqs EXCEPT ![i].writes = IF created.ok THEN @ + 1 ELSE @,
                                   ![i].resps = @ \o signupAfterCreate(created, clock),
                                   ![i].pc = "done"]
    /\ UNCHANGED <<clock, pvars>>

\* POST /login arrives
LoginRequest(body) ==
    /\ Len(reqs) < MaxReqs
    /\ LET errors == loginErrors(body)
           r == NewReq("login", <<>>, body.email, body.password, NoHeader)
       IN  reqs' = Append(reqs,
               IF errors # <<>>
               THEN [r EXCEPT !.pc = "done", !.handlerRuns = 1,
                              !.resps = <<Resp(400, [isError |-> TRUE, errors |-> errors])>>]
               ELSE [r EXCEPT !.pc = "find", !.handlerRuns = 1])
    /\ UNCHANGED <<users, nextId, clock, pvars>>

\* POST /login: User.findOne resolves, the password is compared and the
\* response is sent
LoginFind(i) ==
    /\ reqs[i].kind = "login" /\ reqs[i].pc = "find"
    /\ LET found == FindOne(users, reqs[i].email)
       IN  reqs' = [reqs EXCEPT ![i].looked = TRUE, ![i].found = found,
                                ![i].reads = @ + 1,
                                ![i].resps = @ \o loginAfterFind(found, reqs[i].password, clock),
                                ![i].pc = "done"]
    /\ UNCHANGED <<users, nextId, clock, pvars>>

\* GET /me arrives with an authorization header: the Auth Gate runs; on
\* next() the handler starts, up to `await User.findById`
MeRequest(header) ==
    /\ Len(reqs) < MaxReqs
    /\ LET g == auth(header, clock)
           r == NewReq("me", <<>>, <<>>, "", header)
       IN  reqs' = Append(reqs,
               [r EXCEPT !.resps = g.resps, !.user = g.user,
                         !.verifyCalls = g.verifyCalls,
                         !.gateAt = clock,
                         !.handlerRuns = IF g.next THEN 1 ELSE 0,
                         !.pc = IF g.next THEN "find" ELSE "done"])
    /\ UNCHANGED <<users, nextId, clock, pvars>>

\* GET /me: User.findById resolves and the response is sent
MeFind(i) ==
    /\ reqs[i].kind = "me" /\ reqs[i].pc = "find"
    /\ LET found == FindById(users, reqs[i].user[1].id)
       IN  reqs' = [reqs EXCEPT ![i].looked = TRUE, ![i].found = found,
                                ![i].reads = @ + 1,
                                ![i].resps = @ \o meAfterFind(found),
                                ![i].pc = "done"]
    /\ UNCHANGED <<users, nextId, clock, pvars>>

\* a day passes
Tick ==
    /\ clock < MaxClock
    /\ clock' = clock + 1
    /\ UNCHANGED <<users, nextId, reqs, pvars>>

Next ==
    \/ \E body \in SignupBodies : SignupRequest(body)
    \/ \E i \in 1..Len(reqs) : SignupFind(i)
    \/ \E i \in 1..Len(reqs) : SignupCreate(i)
    \/ \E body \in LoginBodies : LoginRequest(body)
    \/ \E i \in 1..Len(reqs) : LoginFind(i)
    \/ \E header \in Headers : MeRequest(header)
    \/ \E i \in 1..Len(reqs) : MeFind(i)
    \/ Tick

Spec == Init /\ [][Next]_vars

\* An account is removed from the store by something other than these
\* routes (the routes never delete).
RemoveAccount(doc) ==
    /\ doc \in users
    /\ users' = users \ {doc}
    /\ UNCHANGED <<nextId, reqs, clock, pvars>>

\* the auth routes over a store whose accounts can disappear
NextDel ==
    \/ \E body \in SignupBodies : SignupRequest(body)
    \/ \E i \in 1..Len(reqs) : SignupFind(i)
    \/ \E i \in 1..Len(reqs) : SignupCreate(i)
    \/ \E header \in Headers : MeRequest(header)
    \/ \E i \in 1..Len(reqs) : MeFind(i)
    \/ \E doc \in users : RemoveAccount(doc)
    \/ Tick

SpecDel == Init /\ [][NextDel]_vars

TypeOK ==
    /\ nextId >= Cardinality(users) + 1
    /\ clock \in 0..MaxClock
    /\ Len(reqs) <= MaxReqs
    /\ \A i \in 1..Len(reqs) :
         /\ reqs[i].kind \in {"signup", "login", "me"}
         /\ reqs[i].pc \in {"find", "create", "done"}

\* ======================================================================================
\* Profile routes (imageuploader/backend.js)
\* ======================================================================================
\* A text field of the multipart body: missing (undefined) or a string of
\* characters.  A MIME type is a sequence of parts, "image/png" being
\* <<"image", "/", "png">>.  An :id parameter is a string: the 24 hex digits
\* of an ObjectId (kind "hex24", n the ObjectId) or any other text.
NoField == [present |-> FALSE, value |-> <<>>]

Fld(value) == [present |-> TRUE, value |-> value]

NoFile == [present |-> FALSE, mimetype |-> <<>>, size |-> 0, buffer |-> ""]

File(mimetype, size, buffer) ==
    [present |-> TRUE, mimetype |-> mimetype, size |-> size, buffer |-> buffer]

\* savedUser._id / req.params.id as a string
IdString(n) == [kind |-> "hex24", n |-> n]

Malformed == [kind |-> "text", n |-> 0]

\* limits.fileSize
FileSizeLimit == 5 * 1024 * 1024

\* a response of the profile routes: JSON, raw bytes, or the page of
\* Express's default error handler
JsonResp(status, body) ==
    [status |-> status, contentType |-> <<"application", "/", "json">>, body |-> body]

RawResp(contentType, data) ==
    [status |-> 200, contentType |-> contentType, body |-> [raw |-> data]]

\* next(err) with no error-handling middleware on the router: Express's
\* default handler answers err.status || 500 with an HTML page
defaultErrorHandler(err) ==
    [status |-> 500, contentType |-> <<"text", "/", "html">>, body |-> [html |-> err]]

\* file.mimetype.startsWith('image/')
startsWithImage(mimetype) ==
    Len(mimetype) >= 2 /\ mimetype[1] = "image" /\ mimetype[2] = "/"

multerSingleNoLimit(file) ==
    IF ~ file.present THEN [ok |-> TRUE, err |-> "", file |-> NoFile]
    ELSE IF ~ startsWithImage(file.mimetype)
    THEN [ok |-> FALSE, err |-> "Only image files are allowed!", file |-> NoFile]
    ELSE [ok |-> TRUE, err |-> "", file |-> file]

\* upload.single('image'): the fileFilter sees the declared type when the
\* part starts, the size limit trips while its bytes are buffered; either
\* failure is passed to next(err) and the route handler is not called
multerSingle(file) ==
    IF ~ file.present THEN [ok |-> TRUE, err |-> "", file |-> NoFile]
    ELSE IF ~ startsWithImage(file.mimetype)
    THEN [ok |-> FALSE, err |-> "Only image files are allowed!", file |-> NoFile]
    ELSE IF file.size > FileSizeLimit
    THEN [ok |-> FALSE, err |-> "File too large", file |-> NoFile]
    ELSE [ok |-> TRUE, err |-> "", file |-> file]

\* !value of a body field
falsy(field) == ~ field.present \/ field.value = <<>>

ingestValidateNoFileCheck(name, mobile, address, file) ==
    IF falsy(name) \/ falsy(mobile) \/ falsy(address)
    THEN <<JsonResp(400, [success |-> FALSE,
                          message |-> "Name, mobile, and address are required"])>>
    ELSE <<>>

\* POST /users: the two validation blocks of the handler
ingestValidate(name, mobile, address, file) ==
    IF falsy(name) \/ falsy(mobile) \/ falsy(address)
    THEN <<JsonResp(400, [success |-> FALSE,
                          message |-> "Name, mobile, and address are required"])>>
    ELSE IF ~ file.present
    THEN <<JsonResp(400, [success |-> FALSE, message |-> "Image is required"])>>
    ELSE <<>>

saveProfileNoRequired(id, name, mobile, address, file, now) ==
    [ok |-> TRUE,
     err |-> "",
     doc |-> [_id |-> id, name |-> trim(name), mobile |-> trim(mobile),
              address |-> trim(address),
              image |-> [hasData |-> file.present, data |-> file.buffer,
                         contentType |-> file.mimetype],
              createdAt |-> now]]

\* new User({...}).save(): the schema trims the three strings and requires
\* them; a failed validation rejects the save (ok = FALSE)
saveProfile(id, name, mobile, address, file, now) ==
    LET doc == [_id |-> id, name |-> trim(name), mobile |-> trim(mobile),
                address |-> trim(address),
                image |-> [hasData |-> file.present, data |-> file.buffer,
                           contentType |-> file.mimetype],
                createdAt |-> now]
    IN  [ok |-> doc.name # <<>> /\ doc.mobile # <<>> /\ doc.address # <<>>,
         err |-> "User validation failed",
         doc |-> doc]

\* POST /users after `await newUser.save()`, or its catch block
ingestAfterSave(saved) ==
    IF saved.ok
    THEN <<JsonResp(201, [success |-> TRUE, message |-> "User created successfully",
                          data |-> [id |-> IdString(saved.doc._id),
                                    name |-> saved.doc.name,
                                    mobile |-> saved.doc.mobile,
                                    address |-> saved.doc.address,
                                    createdAt |-> saved.doc.createdAt]])>>
    ELSE <<JsonResp(500, [success |-> FALSE, message |-> "Internal server error",
                          error |-> saved.err])>>

\* the projection '-image'
minusImage(doc) == [f \in (DOMAIN doc) \ {"image"} |-> doc[f]]

\* the arrangements of the documents of the store in a result list
Arrangements(store) ==
    { o \in [1..Cardinality(store) -> store] :
        \A p \in DOMAIN o : \A q \in DOMAIN o : p # q => o[p] # o[q] }

sortCreatedAtAscending(store) ==
    { o \in Arrangements(store) :
        \A p \in DOMAIN o : \A q \in DOMAIN o :
          p < q => o[p].createdAt <= o[q].createdAt }

\* .sort({ createdAt: -1 }): the results the query may return (documents
\* with equal createdAt in either order)
sortCreatedAtDescending(store) ==
    { o \in Arrangements(store) :
        \A p \in DOMAIN o : \A q \in DOMAIN o :
          p < q => o[p].createdAt >= o[q].createdAt }

\* GET /users after `await User.find({}, '-image').sort({ createdAt: -1 })`
listAfterFind(found) ==
    <<JsonResp(200, [success |-> TRUE,
                     data |-> [p \in DOMAIN found |-> minusImage(found[p])]])>>

isValidAlways(id) == TRUE

\* mongoose.Types.ObjectId.isValid(req.params.id)
isValid(id) == id.kind = "hex24"

\* User.findById(req.params.id): the id string is cast to an ObjectId; a
\* string that cannot be cast rejects the query (ok = FALSE, CastError)
findProfileById(store, id) ==
    IF id.kind # "hex24"
    THEN [ok |-> FALSE, err |-> "Cast to ObjectId failed", found |-> <<>>]
    ELSE [ok |-> TRUE, err |-> "",
          found |-> IF \E d \in store : d._id = id.n
                    THEN <<CHOOSE d \in store : d._id = id.n>>
                    ELSE <<>>]

\* GET /users/:id after `await User.findById(req.params.id, '-image')`, or
\* its catch block
getAfterFind(q) ==
    IF ~ q.ok
    THEN <<JsonResp(500, [success |-> FALSE, message |-> "Internal server error",
                          error |-> q.err])>>
    ELSE IF q.found = <<>>
    THEN <<JsonResp(404, [success |-> FALSE, message |-> "User not found"])>>
    ELSE <<JsonResp(200, [success |-> TRUE, data |-> minusImage(q.found[1])])>>

\* process.env.NODE_ENV === 'development' ? error.message : 'Something went wrong'
imageErrorDetail(env, err) == IF env = "development" THEN err ELSE "Something went wrong"

imageAfterFindNoDataCheck(q, env) ==
    IF ~ q.ok
    THEN <<JsonResp(500, [success |-> FALSE, message |-> "Internal server error",
                          error |-> imageErrorDetail(env, q.err)])>>
    ELSE IF q.found = <<>>
    THEN <<JsonResp(404, [success |-> FALSE, message |-> "Image not found"])>>
    ELSE <<RawResp(q.found[1].image.contentType, q.found[1].image.data)>>

imageAfterFindOctetStream(q, env) ==
    IF ~ q.ok
    THEN <<JsonResp(500, [success |-> FALSE, message |-> "Internal server error",
                          error |-> imageErrorDetail(env, q.err)])>>
    ELSE IF q.found = <<>> \/ ~ q.found[1].image.hasData
    THEN <<JsonResp(404, [success |-> FALSE, message |-> "Image not found"])>>
    ELSE <<RawResp(<<"application", "/", "octet-stream">>, q.found[1].image.data)>>

\* GET /users/:id/image after `await User.findById(req.params.id)`, or its
\* catch block
imageAfterFind(q, env) ==
    IF ~ q.ok
    THEN <<JsonResp(500, [success |-> FALSE, message |-> "Internal server error",
                          error |-> imageErrorDetail(env, q.err)])>>
    ELSE IF q.found = <<>> \/ ~ q.found[1].image.hasData
    THEN <<JsonResp(404, [success |-> FALSE, message |-> "Image not found"])>>
    ELSE <<RawResp(q.found[1].image.contentType, q.found[1].image.data)>>

\* process.env.NODE_ENV
NODE_ENV == "production"

\* One request to the profile routes.  upload is the file part as sent,
\* file is req.file after multer; id is req.params.id.  Bookkeeping:
\* handlerRuns (starts of the route handler), reads and writes (Profile
\* store accesses), docId (the _id of the Profile it created, 0 if
\* none), stored (the _ids in the store when a read request ran), at (the
\* time of its store access).
NewPReq(kind, name, mobile, address, upload, id) ==
    [kind |-> kind, pc |-> "start", name |-> name, mobile |-> mobile,
     address |-> address, upload |-> upload, file |-> NoFile, id |-> id,
     resps |-> <<>>, handlerRuns |-> 0, reads |-> 0, writes |-> 0,
     docId |-> 0, stored |-> {}, at |-> 0]

\* ---- inputs of the profile routes -----------------------------------------------------
Png == <<"image", "/", "png">>

Jpeg == <<"image", "/", "jpeg">>

TextPlain == <<"text", "/", "plain">>

SmallPng == File(Png, 10 * 1024, "png-bytes")

IngestBodies ==
    { [name |-> Fld(<<"A", "n", "n">>), mobile |-> Fld(<<"1">>), address |-> Fld(<<"M">>),
       upload |-> SmallPng],
      [name |-> Fld(<<"B">>), mobile |-> Fld(<<"2">>), address |-> Fld(<<"M", " ">>),
       upload |-> File(Jpeg, FileSizeLimit, "jpeg-bytes")],
      [name |-> Fld(<<>>), mobile |-> Fld(<<"1">>), address |-> Fld(<<"M">>),
       upload |-> SmallPng],
      [name |-> Fld(<<"A">>), mobile |-> Fld(<<"1">>), address |-> Fld(<<"M">>),
       upload |-> NoFile],
      [name |-> Fld(<<"A">>), mobile |-> Fld(<<"1">>), address |-> NoField,
       upload |-> NoFile],
      [name |-> Fld(<<" ">>), mobile |-> Fld(<<"1">>), address |-> Fld(<<"M">>),
       upload |-> SmallPng],
      [name |-> Fld(<<"A">>), mobile |-> Fld(<<"1">>), address |-> Fld(<<"M">>),
       upload |-> File(Png, 6 * 1024 * 1024, "big-bytes")],
      [name |-> Fld(<<"A">>), mobile |-> Fld(<<"1">>), address |-> Fld(<<"M">>),
       upload |-> File(TextPlain, 10 * 1024, "text-bytes")],
      [name |-> NoField, mobile |-> Fld(<<"1">>), address |-> Fld(<<"M">>),
       upload |-> File(TextPlain, 10 * 1024, "text-bytes")] }

\* a record of the collection that was stored without an image field
LegacyProfile ==
    [_id |-> 0, name |-> <<"L">>, mobile |-> <<"0">>, address |-> <<"M">>,
     image |-> [hasData |-> FALSE, data |-> "", contentType |-> <<>>],
     createdAt |-> 0]

IdParams == {IdString(0), IdString(1), Malformed}

\* ---- state machine of the profile routes ----------------------------------------------
InitProfile ==
    /\ users = {}
    /\ nextId = 1
    /\ reqs = <<>>
    /\ clock = 0
    /\ profiles = {LegacyProfile}
    /\ pNextId = 1
    /\ preqs = <<>>

\* POST /users arrives: multer buffers the upload, then the handler runs
\* up to `await newUser.save()`
IngestRequest(body) ==
    /\ Len(preqs) < MaxReqs
    /\ LET m == multerSingle(body.upload)
           r == NewPReq("ingest", body.name, body.mobile, body.address, body.upload,
                        Malformed)
           errors == ingestValidate(body.name, body.mobile, body.address, m.file)
       IN  preqs' = Append(preqs,
               IF ~ m.ok
               THEN [r EXCEPT !.pc = "done", !.resps = <<defaultErrorHandler(m.err)>>]
               ELSE IF errors # <<>>
               THEN [r EXCEPT !.pc = "done", !.file = m.file, !.handlerRuns = 1,
                              !.resps = errors]
               ELSE [r EXCEPT !.pc = "save", !.file = m.file, !.handlerRuns = 1])
    /\ UNCHANGED <<users, nextId, reqs, clock, profiles, pNextId>>

\* POST /users: the save resolves or rejects, then the response is sent
IngestSave(i) ==
    /\ preqs[i].kind = "ingest" /\ preqs[i].pc = "save"
    /\ LET saved == saveProfile(pNextId, preqs[i].name.value, preqs[i].mobile.value,
                                preqs[i].address.value, preqs[i].file, clock)
       IN  /\ profiles' = IF saved.ok THEN profiles \cup {saved.doc} ELSE profiles
           /\ pNextId' = IF saved.ok THEN pNextId + 1 ELSE pNextId
           /\ preqs' = [preqs EXCEPT ![i].writes = IF saved.ok THEN @ + 1 ELSE @,
                                     ![i].docId = IF saved.ok THEN saved.doc._id ELSE @,
                                     ![i].at = clock,
                                     ![i].resps = @ \o ingestAfterSave(saved),
                                     ![i].pc = "done"]
    /\ UNCHANGED <<users, nextId, reqs, clock>>

StoredIds == { d._id : d \in profiles }

\* GET /users
ListRequest ==
    /\ Len(preqs) < MaxReqs
    /\ \E found \in sortCreatedAtDescending(profiles) :
         preqs' = Append(preqs,
             [NewPReq("list", NoField, NoField, NoField, NoFile, Malformed)
                EXCEPT !.pc = "done", !.handlerRuns = 1, !.reads = 1, !.at = clock, !.stored = StoredIds,
                       !.resps = listAfterFind(found)])
    /\ UNCHANGED <<users, nextId, reqs, clock, profiles, pNextId>>

\* GET /users/:id
GetRequest(id) ==
    /\ Len(preqs) < MaxReqs
    /\ LET q == findProfileById(profiles, id)
       IN  preqs' = Append(preqs,
               [NewPReq("get", NoField, NoField, NoField, NoFile, id)
                  EXCEPT !.pc = "done", !.handlerRuns = 1, !.at = clock, !.stored = StoredIds,
                         !.reads = IF q.ok THEN 1 ELSE 0,
                         !.resps = getAfterFind(q)])
    /\ UNCHANGED <<users, nextId, reqs, clock, profiles, pNextId>>

\* GET /users/:id/image
ImageRequest(id) ==
    /\ Len(preqs) < MaxReqs
    /\ LET r == [NewPReq("image", NoField, NoField, NoField, NoFile, id)
                   EXCEPT !.pc = "done", !.handlerRuns = 1, !.at = clock]
           q == findProfileById(profiles, id)
       IN  preqs' = Append(preqs,
               IF ~ isValid(id)
               THEN [r EXCEPT !.resps = <<JsonResp(400, [success |-> FALSE,
                                              message |-> "Invalid user ID format"])>>]
               ELSE [r EXCEPT !.reads = IF q.ok THEN 1 ELSE 0,
                              !.stored = StoredIds,
                              !.resps = imageAfterFind(q, NODE_ENV)])
    /\ UNCHANGED <<users, nextId, reqs, clock, profiles, pNextId>>

NextProfile ==
    \/ \E body \in IngestBodies : IngestRequest(body)
    \/ \E i \in 1..Len(preqs) : IngestSave(i)
    \/ ListRequest
    \/ \E id \in IdParams : GetRequest(id)
    \/ \E id \in IdParams : ImageRequest(id)
    \/ Tick

SpecProfile == InitProfile /\ [][NextProfile]_vars

\* the profile routes over a store that starts empty: every Profile in it
\* was created by POST /users
SpecIngest == Init /\ [][NextProfile]_vars

\* ---- notions used by the properties --------------------------------------------------
IsMe(i) == reqs[i].kind = "me"

\* the credential a header carries: the header without its scheme prefix
Credential(authorization) ==
    LET h == authorization.value
    IN  IF ~ authorization.present THEN <<>>
        ELSE IF h # <<>> /\ h[1] = Bearer THEN SubSeq(h, 2, Len(h)) ELSE h

\* t is a signed credential string (a JSON Web Token, genuine or not) or
\* other text that does not itself begin with the scheme prefix
IsTokenString(t) == Len(t) = 1 /\ t[1].kind \in {"jwt", "junk"}

\* t was signed with the server's secret and has not expired at time now
ValidAt(t, now) ==
    /\ Len(t) = 1
    /\ t[1].kind = "jwt"
    /\ t[1].key = JWT_SECRET
    /\ now < t[1].exp

Unauthorized(msg) == <<[status |-> 401, body |-> [isError |-> TRUE, Message |-> msg]]>>

\* requests answered with a token and a user view
Granted == { j \in 1..Len(reqs) :
               /\ reqs[j].kind \in {"signup", "login"}
               /\ reqs[j].resps # <<>>
               /\ reqs[j].resps[1].status \in {200, 201} }

\* ---- C1 ------------------------------------------------------------------------------
\* C1: the handler of GET /me starts, and the store is read, only on a
\* request from which the Auth Gate extracted a token whose verification
\* succeeded; on a request with no token or a token failing verification the
\* handler never runs and the store is never accessed.
C1_GateBeforeHandler ==
    \A i \in 1..Len(reqs) :
      IsMe(i) =>
        LET t == Credential(reqs[i].header)
        IN  /\ (reqs[i].handlerRuns > 0 \/ reqs[i].reads > 0 \/ reqs[i].looked)
                 => /\ t # <<>>
                    /\ ValidAt(t, reqs[i].gateAt)
                    /\ reqs[i].verifyCalls = 1
                    /\ Len(reqs[i].user) = 1
            /\ (t = <<>> \/ ~ ValidAt(t, reqs[i].gateAt))
                 => /\ reqs[i].handlerRuns = 0
                    /\ reqs[i].reads = 0
                    /\ reqs[i].writes = 0
                    /\ reqs[i].pc = "done"

C1_Witness ==
    /\ \E i \in 1..Len(reqs) :
         IsMe(i) /\ reqs[i].handlerRuns = 1 /\ reqs[i].reads = 1
    /\ \E i \in 1..Len(reqs) :
         IsMe(i) /\ reqs[i].pc = "done" /\ reqs[i].handlerRuns = 0

\* ---- C2 ------------------------------------------------------------------------------
\* C2: the Account store never holds two accounts with the same email,
\* whatever the interleaving of signup requests.
C2_EmailUnique ==
    \A d1 \in users : \A d2 \in users : d1.email = d2.email => d1 = d2

\* two signups with the same email both looked the email up before either
\* created, and both have finished
C2_Witness ==
    \E i \in 1..Len(reqs) : \E j \in 1..Len(reqs) :
      /\ i # j
      /\ reqs[i].kind = "signup" /\ reqs[j].kind = "signup"
      /\ reqs[i].email = reqs[j].email
      /\ reqs[i].looked /\ reqs[i].found = <<>>
      /\ reqs[j].looked /\ reqs[j].found = <<>>
      /\ reqs[i].pc = "done" /\ reqs[j].pc = "done"
      /\ reqs[i].resps[1].status = 201

\* ---- C3 ------------------------------------------------------------------------------
\* C3: no response body of signup, login or me, whatever the outcome, has a
\* password field, neither at top level nor in its user view.
C3_NoPasswordInResponse ==
    \A i \in 1..Len(reqs) : \A k \in 1..Len(reqs[i].resps) :
      LET body == reqs[i].resps[k].body
      IN  /\ "password" \notin DOMAIN body
          /\ "user" \in DOMAIN body => "password" \notin DOMAIN body.user

C3_Witness ==
    /\ \E i \in 1..Len(reqs) :
         reqs[i].kind = "signup" /\ reqs[i].resps # <<>> /\ reqs[i].resps[1].status = 201
    /\ \E i \in 1..Len(reqs) :
         reqs[i].kind = "login" /\ reqs[i].resps # <<>> /\ reqs[i].resps[1].status = 200
    /\ \E i \in 1..Len(reqs) :
         /\ IsMe(i) /\ reqs[i].resps # <<>> /\ reqs[i].resps[1].status = 200
         /\ reqs[i].resps[1].body.user.email = Ann

\* ---- C4 ------------------------------------------------------------------------------
\* C4: a login whose email has no account and a login whose email has an
\* account but whose password does not match get the same response, 401
\* "Invalid credentials" with the same body shape, and the step that
\* answers a login leaves the store unchanged.
C4_LoginNoOracle ==
    /\ [](\A i \in 1..Len(reqs) :
            (reqs[i].kind = "login" /\ reqs[i].looked
               /\ (\/ reqs[i].found = <<>>
                   \/ reqs[i].found[1].password # <<"hash", reqs[i].password>>))
              => /\ reqs[i].resps = Unauthorized("Invalid credentials")
                 /\ reqs[i].writes = 0)
    /\ [][\A i \in 1..Len(reqs) :
            (reqs[i].kind = "login" /\ reqs[i].pc = "find" /\ reqs'[i].pc = "done")
              => users' = users]_vars

C4_Witness ==
    \E i \in 1..Len(reqs) : \E j \in 1..Len(reqs) :
      /\ reqs[i].kind = "login" /\ reqs[i].looked /\ reqs[i].found = <<>>
      /\ reqs[j].kind = "login" /\ reqs[j].looked /\ reqs[j].found # <<>>
      /\ reqs[j].found[1].password # <<"hash", reqs[j].password>>
      /\ reqs[i].resps = reqs[j].resps

\* ---- C5 ------------------------------------------------------------------------------
\* C5: when GET /me carries a token that a signup or login response handed
\* out, and the gate runs before the token's expiry, the gate attaches one
\* identity whose id and email are those of the account the token was
\* issued for.
C5_TokenRoundTrip ==
    \A i \in 1..Len(reqs) : \A j \in Granted :
      LET t == reqs[j].resps[1].body.token
          account == reqs[j].resps[1].body.user
      IN  (IsMe(i) /\ Credential(reqs[i].header) = t /\ reqs[i].gateAt < t[1].exp)
            => /\ Len(reqs[i].user) = 1
               /\ reqs[i].user[1].id = account._id
               /\ reqs[i].user[1].email = account.email

C5_Witness ==
    \E i \in 1..Len(reqs) : \E j \in Granted :
      /\ IsMe(i)
      /\ Credential(reqs[i].header) = reqs[j].resps[1].body.token
      /\ Len(reqs[i].user) = 1
      /\ reqs[i].user[1].email = Ann

\* ---- C6 ------------------------------------------------------------------------------
\* C6: a GET /me whose token carries a valid signature but whose gate runs
\* ExpiresIn or more after the token was issued is answered 401
\* "Invalid/Expired token" and never reaches the handler.
C6_ExpiredRejected ==
    \A i \in 1..Len(reqs) :
      LET t == Credential(reqs[i].header)
      IN  (/\ IsMe(i)
           /\ Len(t) = 1 /\ t[1].kind = "jwt" /\ t[1].key = JWT_SECRET
           /\ reqs[i].gateAt >= t[1].iat + ExpiresIn)
            => /\ reqs[i].resps = Unauthorized("Invalid/Expired token")
               /\ reqs[i].handlerRuns = 0
               /\ reqs[i].reads = 0

C6_Witness ==
    \E i \in 1..Len(reqs) :
      LET t == Credential(reqs[i].header)
      IN  /\ IsMe(i)
          /\ Len(t) = 1 /\ t[1].kind = "jwt" /\ t[1].key = JWT_SECRET
          /\ reqs[i].gateAt >= t[1].iat + ExpiresIn
          /\ reqs[i].resps = Unauthorized("Invalid/Expired token")

\* ---- C7 ------------------------------------------------------------------------------
\* C7: when the authorization header is absent, empty, or exactly the
\* scheme prefix, the gate answers 401 "No token provided" and never calls
\* the verification.
C7_NoTokenProvided ==
    \A i \in 1..Len(reqs) :
      (IsMe(i) /\ (\/ ~ reqs[i].header.present
                   \/ reqs[i].header.value = <<>>
                   \/ reqs[i].header.value = <<Bearer>>))
        => /\ reqs[i].resps = Unauthorized("No token provided")
           /\ reqs[i].verifyCalls = 0
           /\ reqs[i].handlerRuns = 0

C7_Witness ==
    /\ \E i \in 1..Len(reqs) : IsMe(i) /\ ~ reqs[i].header.present
    /\ \E i \in 1..Len(reqs) :
         IsMe(i) /\ reqs[i].header.present /\ reqs[i].header.value = <<>>
    /\ \E i \in 1..Len(reqs) :
         /\ IsMe(i) /\ reqs[i].header.value = <<Bearer>>
         /\ reqs[i].resps = Unauthorized("No token provided")

\* ---- C8 ------------------------------------------------------------------------------
\* C8: when the header carries a non-empty token that fails verification
\* (bad signature, malformed, or expired), the gate answers 401
\* "Invalid/Expired token", attaches no identity and does not call the
\* handler.
C8_InvalidTokenRejected ==
    \A i \in 1..Len(reqs) :
      LET t == Credential(reqs[i].header)
      IN  (IsMe(i) /\ t # <<>> /\ ~ ValidAt(t, reqs[i].gateAt))
            => /\ reqs[i].resps = Unauthorized("Invalid/Expired token")
               /\ reqs[i].user = <<>>
               /\ reqs[i].handlerRuns = 0
               /\ reqs[i].verifyCalls = 1

\* one request rejected for its signature, one for being malformed
C8_Witness ==
    /\ \E i \in 1..Len(reqs) :
         /\ IsMe(i) /\ Credential(reqs[i].header) = ForgedToken
         /\ reqs[i].resps = Unauthorized("Invalid/Expired token")
    /\ \E i \in 1..Len(reqs) :
         /\ IsMe(i) /\ Credential(reqs[i].header) = <<Junk>>
         /\ reqs[i].resps = Unauthorized("Invalid/Expired token")

\* ---- C9 ------------------------------------------------------------------------------
\* C9: for every token string t, a request whose header is the scheme
\* prefix followed by t and a request whose header is t alone, both gated
\* at the same time, get the same decision (handler called or not, same
\* rejection) and the same attached identity.
C9_BearerOrRaw ==
    \A i \in 1..Len(reqs) : \A j \in 1..Len(reqs) :
      (/\ IsMe(i) /\ IsMe(j)
       /\ reqs[i].header.present /\ reqs[j].header.present
       /\ IsTokenString(reqs[j].header.value)
       /\ reqs[i].header.value = <<Bearer>> \o reqs[j].header.value
       /\ reqs[i].gateAt = reqs[j].gateAt)
        => /\ reqs[i].user = reqs[j].user
           /\ reqs[i].handlerRuns = reqs[j].handlerRuns
           /\ (reqs[i].handlerRuns = 0 => reqs[i].resps = reqs[j].resps)

C9_Witness ==
    \E i \in 1..Len(reqs) : \E j \in 1..Len(reqs) :
      /\ IsMe(i) /\ IsMe(j)
      /\ IsTokenString(reqs[j].header.value)
      /\ reqs[i].header.value = <<Bearer>> \o reqs[j].header.value
      /\ reqs[i].gateAt = reqs[j].gateAt
      /\ Len(reqs[i].user) = 1 /\ Len(reqs[j].user) = 1

\* ---- C10 -----------------------------------------------------------------------------
\* C10: a signup with valid input whose lookup finds the email registered
\* is answered 409 "Email already in use" with no token, writes nothing,
\* and the step leaves the store, and so the existing account, unchanged.
C10_SignupConflict ==
    /\ [](\A i \in 1..Len(reqs) :
            (reqs[i].kind = "signup" /\ reqs[i].looked /\ reqs[i].found # <<>>)
              => /\ reqs[i].resps = <<[status |-> 409,
                                       body |-> [isError |-> TRUE,
                                                 Message |-> "Email already in use"]]>>
                 /\ reqs[i].pc = "done"
                 /\ reqs[i].writes = 0
                 /\ reqs[i].found[1] \in users)
    /\ [][\A i \in 1..Len(reqs) :
            (reqs[i].kind = "signup" /\ reqs[i].pc = "find" /\ reqs'[i].found # <<>>)
              => users' = users /\ nextId' = nextId]_vars

C10_Witness ==
    \E i \in 1..Len(reqs) :
      /\ reqs[i].kind = "signup" /\ reqs[i].looked /\ reqs[i].found # <<>>
      /\ reqs[i].password # "secret1"
      /\ reqs[i].found[1].password = <<"hash", "secret1">>
      /\ reqs[i].resps[1].status = 409

\* ---- C11 -----------------------------------------------------------------------------
\* C11: a GET /me whose token verified but whose subject id has no account
\* in the store when the lookup runs is answered 404 (User not found), not
\* 200 and not 401.
C11_DanglingToken ==
    \A i \in 1..Len(reqs) :
      (IsMe(i) /\ Len(reqs[i].user) = 1 /\ reqs[i].looked /\ reqs[i].found = <<>>)
        => reqs[i].resps = <<[status |-> 404,
                              body |-> [isError |-> TRUE, Message |-> "User not found"]]>>

\* the token was handed out for an account that has since been removed
C11_Witness ==
    \E i \in 1..Len(reqs) : \E j \in Granted :
      /\ IsMe(i) /\ reqs[i].looked /\ reqs[i].found = <<>>
      /\ Credential(reqs[i].header) = reqs[j].resps[1].body.token
      /\ reqs[i].user[1].id = reqs[j].resps[1].body.user._id
      /\ reqs[i].resps[1].status = 404

\* ---- both routers in one application ---------------------------------------------------
\* a step of a request in flight: an awaited store operation resolves or
\* rejects and the handler runs on to its response or its next await
Step ==
    \/ \E i \in 1..Len(reqs) : SignupFind(i)
    \/ \E i \in 1..Len(reqs) : SignupCreate(i)
    \/ \E i \in 1..Len(reqs) : LoginFind(i)
    \/ \E i \in 1..Len(reqs) : MeFind(i)
    \/ \E i \in 1..Len(preqs) : IngestSave(i)

\* requests sent to the application with both routers mounted: for every
\* route, one request for each way its handler can answer
AppSignupBodies ==
    { body \in SignupBodies : body.password \in {"secret1", "abc"} }

AppHeaders ==
    {NoHeader} \cup { Hdr(<<Bearer>> \o t) : t \in IssuedTokens \cup {ForgedToken} }

AppIngestBodies ==
    { body \in IngestBodies :
        /\ body.mobile = Fld(<<"1">>)
        /\ body.address = Fld(<<"M">>)
        /\ body.name \in {Fld(<<"A", "n", "n">>), Fld(<<>>), Fld(<<"A">>)}
        /\ body.upload \in {SmallPng, File(Png, 6 * 1024 * 1024, "big-bytes")} }

AppIdParams == {IdString(1), Malformed}

\* MaxReqs bounds the requests of the two routers together
NextAll ==
    /\ \/ \E body \in AppSignupBodies : SignupRequest(body)
       \/ \E body \in LoginBodies : LoginRequest(body)
       \/ \E header \in AppHeaders : MeRequest(header)
       \/ \E body \in AppIngestBodies : IngestRequest(body)
       \/ ListRequest
       \/ \E id \in AppIdParams : GetRequest(id)
       \/ \E id \in AppIdParams : ImageRequest(id)
       \/ Step
       \/ \E doc \in users : RemoveAccount(doc)
       \/ Tick
    /\ Len(reqs') + Len(preqs') <= MaxReqs

SpecAll == InitProfile /\ [][NextAll]_vars

\* the event loop runs every continuation whose awaited operation has
\* settled, and the store settles every operation
FairSpecAll == SpecAll /\ WF_vars(Step)

\* ---- notions used by the properties of the profile routes -----------------------------
IsIngest(i) == preqs[i].kind = "ingest"

\* the upload exceeds 5 MiB
TooLarge(upload) == upload.present /\ upload.size > 5 * 1024 * 1024

\* the upload's declared type begins with "image/"
DeclaredImage(upload) ==
    upload.present /\ Len(upload.mimetype) >= 2
      /\ upload.mimetype[1] = "image" /\ upload.mimetype[2] = "/"

Missing(field) == ~ field.present \/ field.value = <<>>

WellFormedId(id) == id.kind = "hex24"

Status(i) == IF preqs[i].resps = <<>> THEN 0 ELSE preqs[i].resps[1].status

\* ---- C12 -----------------------------------------------------------------------------
\* C12: an upload whose file exceeds 5 MiB is rejected before anything is
\* persisted: the arrival of the request leaves the set of stored Profiles
\* as it was, the request is finished at once without a write, and its
\* bytes are in no stored Profile.
C12_TooLargeNoWrite ==
    /\ [](\A i \in 1..Len(preqs) :
            (IsIngest(i) /\ TooLarge(preqs[i].upload))
              => /\ preqs[i].pc = "done"
                 /\ preqs[i].writes = 0
                 /\ Status(i) \notin {200, 201}
                 /\ \A d \in profiles : d.image.data # preqs[i].upload.buffer)
    /\ [][(/\ Len(preqs') = Len(preqs) + 1
           /\ preqs'[Len(preqs')].kind = "ingest"
           /\ TooLarge(preqs'[Len(preqs')].upload))
            => profiles' = profiles]_vars

C12_Witness ==
    \E i \in 1..Len(preqs) : \E j \in 1..Len(preqs) :
      /\ IsIngest(i) /\ TooLarge(preqs[i].upload) /\ DeclaredImage(preqs[i].upload)
      /\ ~ Missing(preqs[i].name) /\ ~ Missing(preqs[i].mobile)
      /\ ~ Missing(preqs[i].address)
      /\ IsIngest(j) /\ preqs[j].writes = 1

\* ---- C13 -----------------------------------------------------------------------------
\* C13: an upload whose file exceeds 5 MiB is answered 413.
C13_PayloadTooLarge ==
    \A i \in 1..Len(preqs) :
      (IsIngest(i) /\ TooLarge(preqs[i].upload) /\ DeclaredImage(preqs[i].upload))
        => Status(i) = 413

\* ---- C14 -----------------------------------------------------------------------------
\* C14: an upload whose declared MIME type does not begin with "image/" is
\* answered 415 and no Profile is persisted.
C14_UnsupportedMediaType ==
    \A i \in 1..Len(preqs) :
      (IsIngest(i) /\ preqs[i].upload.present /\ ~ DeclaredImage(preqs[i].upload))
        => Status(i) = 415 /\ preqs[i].writes = 0

\* ---- C15 -----------------------------------------------------------------------------
\* C15 as stated: POST /users is answered 400 whenever name, mobile or
\* address is missing or empty or no file was supplied, nothing is
\* persisted, and a missing text field is reported before a missing file.
C15_BadRequestAlways ==
    \A i \in 1..Len(preqs) :
      LET noField == Missing(preqs[i].name) \/ Missing(preqs[i].mobile)
                       \/ Missing(preqs[i].address)
      IN  (IsIngest(i) /\ (noField \/ ~ preqs[i].upload.present))
            => /\ preqs[i].pc = "done"
               /\ Status(i) = 400
               /\ preqs[i].writes = 0
               /\ preqs[i].resps[1].body.message =
                    IF noField THEN "Name, mobile, and address are required"
                    ELSE "Image is required"

\* C15 (amended): the same, for requests that carry no file or a file that
\* passes the type filter and the size limit.
C15_BadRequest ==
    \A i \in 1..Len(preqs) :
      LET noField == Missing(preqs[i].name) \/ Missing(preqs[i].mobile)
                       \/ Missing(preqs[i].address)
          fileOk == \/ ~ preqs[i].upload.present
                    \/ DeclaredImage(preqs[i].upload) /\ ~ TooLarge(preqs[i].upload)
      IN  (IsIngest(i) /\ fileOk /\ (noField \/ ~ preqs[i].upload.present))
            => /\ preqs[i].pc = "done"
               /\ Status(i) = 400
               /\ preqs[i].writes = 0
               /\ preqs[i].resps[1].body.message =
                    IF noField THEN "Name, mobile, and address are required"
                    ELSE "Image is required"

\* a missing field with a file, a missing file, and both at once
C15_Witness ==
    /\ \E i \in 1..Len(preqs) :
         IsIngest(i) /\ Missing(preqs[i].name) /\ preqs[i].file.present /\ Status(i) = 400
    /\ \E i \in 1..Len(preqs) :
         /\ IsIngest(i) /\ ~ Missing(preqs[i].address) /\ ~ preqs[i].upload.present
         /\ Status(i) = 400
    /\ \E i \in 1..Len(preqs) :
         /\ IsIngest(i) /\ Missing(preqs[i].address) /\ ~ preqs[i].upload.present
         /\ preqs[i].resps[1].body.message = "Name, mobile, and address are required"

\* ---- C16 -----------------------------------------------------------------------------
\* the ingest requests answered 201
Created == { i \in 1..Len(preqs) : IsIngest(i) /\ Status(i) = 201 }

\* C16: when an ingest of bytes B declared as type T was answered 201 with
\* id i, every image request for i that runs once that Profile is stored is
\* answered 200 with body exactly B and Content-Type T, whatever other
\* requests ran in between.
C16_ImageRoundTrip ==
    \A i \in Created : \A j \in 1..Len(preqs) :
      (/\ preqs[j].kind = "image"
       /\ preqs[j].id = preqs[i].resps[1].body.data.id
       /\ preqs[i].docId \in preqs[j].stored)
        => preqs[j].resps = <<[status |-> 200,
                               contentType |-> preqs[i].upload.mimetype,
                               body |-> [raw |-> preqs[i].upload.buffer]]>>

\* two Profiles were ingested before the image of the first was fetched
C16_Witness ==
    \E i \in Created : \E k \in Created : \E j \in 1..Len(preqs) :
      /\ i # k
      /\ preqs[j].kind = "image"
      /\ preqs[j].id = preqs[i].resps[1].body.data.id
      /\ preqs[i].docId < preqs[k].docId
      /\ {preqs[i].docId, preqs[k].docId} \subseteq preqs[j].stored
      /\ Status(j) = 200

\* ---- C17 -----------------------------------------------------------------------------
\* C17: an image request whose id is not a well-formed identifier is
\* answered 400, never 500, and does not query the store.
C17_MalformedImageId ==
    \A j \in 1..Len(preqs) :
      (preqs[j].kind = "image" /\ ~ WellFormedId(preqs[j].id))
        => /\ Status(j) = 400
           /\ preqs[j].resps[1].body.message = "Invalid user ID format"
           /\ preqs[j].reads = 0
           /\ preqs[j].stored = {}

C17_Witness ==
    \E j \in 1..Len(preqs) :
      preqs[j].kind = "image" /\ ~ WellFormedId(preqs[j].id) /\ Status(j) = 400

\* ---- C18 -----------------------------------------------------------------------------
\* C18: an image request with a well-formed id is answered 404 when no
\* Profile has that id or when the Profile has no image payload.
C18_ImageNotFound ==
    \A j \in 1..Len(preqs) :
      (/\ preqs[j].kind = "image"
       /\ WellFormedId(preqs[j].id)
       /\ \/ preqs[j].id.n \notin preqs[j].stored
          \/ \E d \in profiles : d._id = preqs[j].id.n /\ ~ d.image.hasData)
        => /\ Status(j) = 404
           /\ preqs[j].resps[1].body.message = "Image not found"

C18_Witness ==
    /\ \E j \in 1..Len(preqs) :
         /\ preqs[j].kind = "image" /\ WellFormedId(preqs[j].id)
         /\ preqs[j].id.n \notin preqs[j].stored /\ Status(j) = 404
    /\ \E j \in 1..Len(preqs) :
         /\ preqs[j].kind = "image" /\ preqs[j].id.n \in preqs[j].stored
         /\ \E d \in profiles : d._id = preqs[j].id.n /\ ~ d.image.hasData
         /\ Status(j) = 404

\* ---- C19 -----------------------------------------------------------------------------
\* C19: the list is answered 200 with every Profile stored when it ran,
\* each once, a Profile created later before one created earlier, and no
\* element carries an image field.
C19_ListDescending ==
    \A j \in 1..Len(preqs) :
      preqs[j].kind = "list" =>
        LET data == preqs[j].resps[1].body.data
        IN  /\ Status(j) = 200
            /\ Len(data) = Cardinality(preqs[j].stored)
            /\ { data[p]._id : p \in DOMAIN data } = preqs[j].stored
            /\ \A p \in DOMAIN data : \A q \in DOMAIN data :
                 data[p].createdAt > data[q].createdAt => p < q
            /\ \A p \in DOMAIN data : "image" \notin DOMAIN data[p]

C19_Witness ==
    \E j \in 1..Len(preqs) :
      /\ preqs[j].kind = "list"
      /\ Len(preqs[j].resps[1].body.data) = 3
      /\ preqs[j].resps[1].body.data[1].createdAt > preqs[j].resps[1].body.data[2].createdAt

\* ---- C20 -----------------------------------------------------------------------------
\* C20: GET /users/:id is answered 200 with the Profile's metadata, without
\* image bytes, when a Profile with that id exists, and 404 for every id
\* for which none exists, the ids that are not well-formed included.
C20_GetById ==
    \A j \in 1..Len(preqs) :
      preqs[j].kind = "get" =>
        IF WellFormedId(preqs[j].id) /\ preqs[j].id.n \in preqs[j].stored
        THEN /\ Status(j) = 200
             /\ preqs[j].resps[1].body.data._id = preqs[j].id.n
             /\ "image" \notin DOMAIN preqs[j].resps[1].body.data
        ELSE Status(j) = 404

\* ---- C21 -----------------------------------------------------------------------------
\* C21: in a store filled by the routes, no step changes or removes a stored
\* Profile; each Profile holds the image bytes and content type of the
\* upload that created it and the (trimmed) name, mobile and address of
\* that request; and every Profile has name, mobile, address and image set.
C21_ProfileImmutable ==
    /\ [][\A d \in profiles : d \in profiles']_vars
    /\ [](\A d \in profiles :
            /\ d.name # <<>> /\ d.mobile # <<>> /\ d.address # <<>>
            /\ d.image.hasData
            /\ \E i \in 1..Len(preqs) :
                 /\ IsIngest(i) /\ preqs[i].docId = d._id
                 /\ d.image.data = preqs[i].upload.buffer
                 /\ d.image.contentType = preqs[i].upload.mimetype
                 /\ d.name = trim(preqs[i].name.value)
                 /\ d.mobile = trim(preqs[i].mobile.value)
                 /\ d.address = trim(preqs[i].address.value))
    /\ [](\A d1 \in profiles : \A d2 \in profiles : d1._id = d2._id => d1 = d2)

\* two Profiles are stored and list, get-by-id and image requests have run
\* since the first was created
C21_Witness ==
    /\ Cardinality(profiles) = 2
    /\ \E j \in 1..Len(preqs) :
         /\ preqs[j].kind \in {"list", "get", "image"}
         /\ preqs[j].stored # {}
         /\ Cardinality(preqs[j].stored) < Cardinality(profiles)

\* ---- C22 -----------------------------------------------------------------------------
\* the request ran into a failure its handler does not expect: an id the
\* store cannot cast, or a save the schema rejects
Unexpected(j) ==
    \/ preqs[j].kind = "get" /\ ~ WellFormedId(preqs[j].id)
    \/ /\ IsIngest(j) /\ preqs[j].pc = "done" /\ preqs[j].file.present
       /\ ~ Missing(preqs[j].name) /\ ~ Missing(preqs[j].mobile)
       /\ ~ Missing(preqs[j].address)
       /\ \/ trim(preqs[j].name.value) = <<>>
          \/ trim(preqs[j].mobile.value) = <<>>
          \/ trim(preqs[j].address.value) = <<>>

\* C22: every unexpected failure is answered 500, and in a production
\* deployment no 500 response carries the underlying error message.
C22_FailureIs500NoDetailInProduction ==
    /\ \A j \in 1..Len(preqs) :
         Unexpected(j) =>
           /\ Status(j) = 500
           /\ NODE_ENV = "production" =>
                \/ "error" \notin DOMAIN preqs[j].resps[1].body
                \/ preqs[j].resps[1].body.error = "Something went wrong"
    /\ \A i \in 1..Len(reqs) : \A k \in 1..Len(reqs[i].resps) :
         reqs[i].resps[k].status = 500 => "error" \notin DOMAIN reqs[i].resps[k].body

\* ---- C23 -----------------------------------------------------------------------------
\* the JSON bodies sent so far, with their status
JsonReplies ==
    { [status |-> reqs[i].resps[1].status, body |-> reqs[i].resps[1].body] :
        i \in { l \in 1..Len(reqs) : reqs[l].resps # <<>> } }
    \cup
    { [status |-> preqs[j].resps[1].status, body |-> preqs[j].resps[1].body] :
        j \in { l \in 1..Len(preqs) :
                  /\ preqs[l].resps # <<>>
                  /\ preqs[l].resps[1].contentType = <<"application", "/", "json">> } }

\* C23: every JSON response carries a boolean success/failure flag and a
\* message, and every error response also carries an error detail string.
C23_Envelope ==
    \A r \in JsonReplies :
      /\ \/ "success" \in DOMAIN r.body /\ r.body.success \in BOOLEAN
         \/ "isError" \in DOMAIN r.body /\ r.body.isError \in BOOLEAN
      /\ "message" \in DOMAIN r.body \/ "Message" \in DOMAIN r.body
      /\ r.status >= 400 => "error" \in DOMAIN r.body

\* ---- C24 -----------------------------------------------------------------------------
\* C24: every request is answered exactly once: never more than one
\* response, a finished request has one, and every request in flight
\* eventually finishes; the Auth Gate either sent its 401 and did not call
\* the handler, or called the handler and sent nothing itself.
C24_ExactlyOneResponse ==
    /\ [](\A i \in 1..Len(reqs) :
            /\ Len(reqs[i].resps) <= 1
            /\ reqs[i].handlerRuns <= 1
            /\ reqs[i].pc = "done" <=> Len(reqs[i].resps) = 1
            /\ IsMe(i) =>
                 \/ /\ reqs[i].handlerRuns = 0
                    /\ reqs[i].pc = "done"
                    /\ reqs[i].resps[1].status = 401
                 \/ /\ reqs[i].handlerRuns = 1
                    /\ \A k \in 1..Len(reqs[i].resps) : reqs[i].resps[k].status # 401)
    /\ [](\A j \in 1..Len(preqs) :
            /\ Len(preqs[j].resps) <= 1
            /\ preqs[j].handlerRuns <= 1
            /\ preqs[j].pc = "done" <=> Len(preqs[j].resps) = 1)
    /\ []<>(/\ \A i \in 1..Len(reqs) : reqs[i].pc = "done" /\ Len(reqs[i].resps) = 1
            /\ \A j \in 1..Len(preqs) : preqs[j].pc = "done" /\ Len(preqs[j].resps) = 1)

\* requests of both routers have finished on a success, a validation
\* failure, a not-found and a caught exception
C24_Witness ==
    /\ \E i \in 1..Len(reqs) :
         IsMe(i) /\ reqs[i].pc = "done" /\ reqs[i].resps[1].status \in {200, 404}
    /\ \E j \in 1..Len(preqs) :
         preqs[j].pc = "done" /\ Status(j) \in {400, 404, 500}

====
